---- MODULE Spec2Model ----
(***************************************************************************)
(* ConfigFileProvider of devdb-vscode                                      *)
(* (src/src/providers/config-file-provider.ts).                            *)
(*                                                                         *)
(* The Provider is one object with two fields, cache and engine, and three *)
(* async methods.  An async method runs synchronously up to its first      *)
(* await; every await is a suspension point at which any other method of   *)
(* the Provider may be invoked or resumed.  Each action below is one such  *)
(* synchronous stretch of one invocation; a resolver is an async function  *)
(* of its own, so its return and the resumption of the loop that awaits it *)
(* are two stretches.  The results of the external                         *)
(* collaborators (config file reader, connector, engines' boot/isOkay) are *)
(* chosen with \E when the await on them resumes.                          *)
(***************************************************************************)
EXTENDS Integers, Sequences, FiniteSets, TLC

VARIABLES
    cache,    \* this.cache
    engine,   \* this.engine
    calls,    \* the invocations of canBeUsedInCurrentWorkspace / getDatabaseEngine
    fresh,    \* history: boot() ran and canBeUsedInCurrentWorkspace() was not
              \* invoked since
    quiet,    \* history: boot() ran and no stretch of canBeUsedInCurrentWorkspace()
              \* (invocation or resumption) ran since
    wiped,    \* history: while quiet, a boot() unset a cache that held entries
    lastGet   \* history: the result of the last getDatabaseEngine() that ran
              \* alone, with no boot() or canBeUsedInCurrentWorkspace() since

vars == <<cache, engine, calls, fresh, quiet, wiped, lastGet>>

(* ------------------------------ bounds -------------------------------- *)

\* Longest descriptor list getConfigFileContent() yields.
MaxLen == 2
\* Most entries the cache, together with the lists still being scanned, holds.
MaxCache == 3
\* Most invocations of Provider methods outstanding at one moment.
MaxCalls == 2

\* The same two bounds while invocations overlap.
MaxConcLen == 1
MaxConcCache == 2

Procs == 1..MaxCalls

(* --------------------------- configuration ---------------------------- *)

\* config.type: the three dispatched groups of lines 31, 36, 46 and one
\* value that none of them matches.
Types == {"sqlite", "mysql", "mariadb", "postgres", "other"}

\* A property that is missing from the descriptor (or from the option).
Undefined == "<undefined>"

\* config.path / config.name: missing, empty, or one of two strings.  Lines
\* 37 and 47 take a missing and an empty name alike (both are falsy); line 87
\* stores the path as it is and line 61 compares with ===.
Keys == {Undefined, "", "a", "b"}

ServerTypes == {"mysql", "mariadb", "postgres"}

\* The entries of the config file: one of each dispatched type with each
\* key, and one of another type (the loop reads nothing but its type).
Descriptors ==
    [type : Types \ {"other"}, key : Keys] \cup {[type |-> "other", key |-> ""]}

RECURSIVE SeqsUpTo(_, _)
SeqsUpTo(S, n) ==
    IF n = 0 THEN {<<>>}
    ELSE LET shorter == SeqsUpTo(S, n - 1)
         IN  shorter \cup {Append(s, x) : s \in {t \in shorter : Len(t) = n - 1}, x \in S}

\* What `await getConfigFileContent()` can resolve to (line 25):
\* undefined, or a list (possibly empty) of descriptors.
ConfigContents ==
    {[defined |-> FALSE, list |-> <<>>]}
        \cup {[defined |-> TRUE, list |-> l] : l \in SeqsUpTo(Descriptors, MaxLen)}

\* The config files read while invocations overlap: one descriptor of each
\* kind of outcome (an embedded file, a named server, a server that shares the
\* file's identity, a server without a name), in lists of at most MaxConcLen.
ConcDescriptors ==
    {[type |-> "sqlite", key |-> "a"], [type |-> "mysql", key |-> "a"],
     [type |-> "postgres", key |-> "b"], [type |-> "mariadb", key |-> ""]}

ShortContents ==
    {[defined |-> FALSE, list |-> <<>>]}
        \cup {[defined |-> TRUE, list |-> l] : l \in SeqsUpTo(ConcDescriptors, MaxConcLen)}

(* ------------------------------- state -------------------------------- *)

\* this.engine === undefined
NoEngine == 0

\* this.cache === undefined
UnsetCache == [def |-> FALSE, items |-> <<>>]

NoOption == [given |-> FALSE, id |-> ""]

\* A resolver returned undefined (lines 84, 97, 103, 115, 121).
NoConnection == [def |-> FALSE, id |-> "", engine |-> NoEngine, okay |-> FALSE]

\* An invocation slot with no invocation in it.
IdleCall ==
    [op      |-> "idle",      \* "canBeUsed" | "getEngine" | "idle"
     pc      |-> "idle",      \* the await the invocation is suspended at
     cfg     |-> <<>>,        \* configContent
     i       |-> 0,           \* position of `config` in configContent
     eng     |-> NoEngine,    \* the engine local to the running resolver
     connection |-> NoConnection, \* what the resolver returned (lines 32, 42, 51)
     opt     |-> NoOption,    \* getDatabaseEngine's argument
     resB    |-> FALSE,       \* canBeUsedInCurrentWorkspace's result
     resE    |-> NoEngine,    \* getDatabaseEngine's result
     msgs    |-> <<>>,        \* showErrorMessage calls made, in order
     npass   |-> 0,           \* resolvers of this invocation that returned an entry
     nfail   |-> 0,           \* resolvers of this invocation that yielded no entry
     nIsOkay |-> 0,           \* isOkay() calls made by this invocation
     booted  |-> <<>>,        \* engines getDatabaseEngine called boot() on (line 71)
     afterBoot |-> FALSE,     \* getDatabaseEngine: `quiet` when it was invoked
     sinceBoot |-> FALSE,     \* getDatabaseEngine: `fresh` when it was invoked
     solo    |-> TRUE,        \* nothing but this invocation ran since it began
     cache0  |-> UnsetCache,  \* this.cache when the invocation began (kept while solo)
     engine0 |-> NoEngine]    \* this.engine when the invocation began (kept while solo)

InFlight(p) == calls[p].pc \notin {"idle", "done", "fault"}

RangeOf(seq) == {seq[k] : k \in 1..Len(seq)}

EnginesOf(c) == {c.items[k].engine : k \in 1..Len(c.items)}

\* Engine instances an invocation record mentions, its resolver's local aside.
KeptRefs(c) ==
    {c.resE, c.engine0, c.connection.engine} \cup RangeOf(c.booted) \cup EnginesOf(c.cache0)

\* A pool of names for engine instances, larger than what can be live at once.
EngineIds == 1..((MaxCache + MaxLen + 3) * (MaxCalls + 1))

NoGet == [valid |-> FALSE, opt |-> NoOption, resE |-> NoEngine]

\* Lines 15-16: engine: undefined, cache: undefined
Init ==
    /\ cache = UnsetCache
    /\ engine = NoEngine
    /\ calls = [p \in Procs |-> IdleCall]
    /\ fresh = FALSE
    /\ quiet = FALSE
    /\ wiped = FALSE
    /\ lastGet = NoGet

(* ------------------ helpers of canBeUsedInCurrentWorkspace ------------ *)

\* Line 28: if (!this.cache) this.cache = []
EnsureCache(c) == IF c.def THEN c ELSE [def |-> TRUE, items |-> <<>>]

\* A variant of Push that keeps the last connection only.
PushReplaces(c, entry) == [c EXCEPT !.items = <<entry>>]

\* Lines 33, 43, 52: this.cache.push(connection)
Push(c, entry) == [c EXCEPT !.items = Append(@, entry)]

\* A variant of NonEmpty with >= for >.
NonEmptyAlways(c) == Len(c.items) >= 0

\* Line 56: this.cache.length > 0
NonEmpty(c) == Len(c.items) > 0

\* Lines 37, 47: !config.name
MissingName(config) == config.key \in {Undefined, ""}

\* A variant of SqliteValid that does not read isOkay.
SqliteValidUnchecked(isOkay, database) == database

\* Line 82: the resolver accepts iff !(!isOkay || !engine.getDatabase())
SqliteValid(isOkay, database) == isOkay /\ database

\* Lines 101, 119: the resolver accepts iff !(!isOkay || !engine.sequelize)
ServerValid(isOkay, sequelize) == isOkay /\ sequelize

\* Lines 86-91: the entry sqliteConfigResolver returns
\* (description and details are derived from the path and never read here).
\* okay is history: what isOkay() resolved to on this engine (line 81).
SqliteEntry(config, e, isOkay) ==
    [def |-> TRUE, id |-> config.key, engine |-> e, okay |-> isOkay]

\* Lines 106-110, 124-128: the entry mysqlConfigResolver / postgresConfigResolver returns.
\* okay is history: what isOkay() resolved to on this engine (lines 100, 118).
ServerEntry(config, e, isOkay) ==
    [def |-> TRUE, id |-> config.key, engine |-> e, okay |-> isOkay]

\* Lines 38-39, 48: the message of a server entry without a name.
NoNameMessage(config) ==
    IF config.type = "mysql" THEN "MySQL entry has no name"
    ELSE IF config.type = "mariadb" THEN "MariaDB entry has no name"
    ELSE "Postgres entry has no name"

\* Lines 102, 120: mariadb entries go through mysqlConfigResolver (line 42).
InvalidServerMessage(config) ==
    IF config.type = "postgres" THEN "Postgres connection not valid"
    ELSE "MySQL connection not valid"

\* Line 83
InvalidSqliteMessage == "SQLite database not valid"

\* Line 63
NotFoundMessage == "Could not find option"

\* Lines 31, 36, 46: the descriptors one of the three `if`s handles.
Dispatched(config) == config.type \in {"sqlite"} \cup ServerTypes

\* A variant of NextIdx for a loop whose last branch is a plain `else`:
\* every descriptor is handled.
NextIdxStops(cfg, j) == IF j > Len(cfg) THEN Len(cfg) + 1 ELSE j

\* The `for` of line 30 from position j on: the first descriptor a branch
\* handles; Len + 1 when the loop runs out.
RECURSIVE NextIdx(_, _)
NextIdx(cfg, j) ==
    IF j > Len(cfg) THEN Len(cfg) + 1
    ELSE IF Dispatched(cfg[j]) THEN j
    ELSE NextIdx(cfg, j + 1)

\* Engine instances mentioned anywhere but in invocation p's resolver local,
\* with ch as the value of this.cache.
LiveOutside(p, ch) ==
    (EnginesOf(ch) \cup {engine} \cup KeptRefs(calls[p])
        \cup UNION {KeptRefs(calls[q]) \cup {calls[q].eng} : q \in Procs \ {p}})
    \ {NoEngine}

\* `new SqliteJsEngine(..)`, `new MysqlEngine(..)`, `new PostgresEngine(..)`:
\* an instance different from every instance mentioned so far.
FreshEngine(live) ==
    CHOOSE n \in EngineIds : n \notin live /\ \A m \in 1..(n - 1) : m \in live

\* Lines 30-56 from position j, run synchronously up to the next await or to
\* the return: c is the invocation, ch the value of this.cache at this point.
ScanFrom(p, c, ch, j) ==
    LET k == NextIdx(c.cfg, j)
    IN  IF k > Len(c.cfg)
        THEN \* line 56; this.cache.length throws when boot() unset the cache
             IF ch.def
             THEN [c EXCEPT !.pc = "done", !.i = k, !.eng = NoEngine, !.resB = NonEmpty(ch)]
             ELSE [c EXCEPT !.pc = "fault", !.i = k, !.eng = NoEngine]
        ELSE IF c.cfg[k].type = "sqlite"
        THEN \* lines 32, 79, 80: new SqliteJsEngine(path); await engine.boot()
             LET e == FreshEngine(LiveOutside(p, ch))
             IN  [c EXCEPT !.pc = "sqBoot", !.i = k, !.eng = e]
        ELSE IF MissingName(c.cfg[k])
        THEN \* lines 37-39, 47-48: await showErrorMessage(..)
             [c EXCEPT !.pc = "nameErr", !.i = k, !.eng = NoEngine,
                       !.msgs = Append(@, NoNameMessage(c.cfg[k]))]
        ELSE \* lines 42, 96 / 51, 114: await getConnectionFor(..)
             [c EXCEPT !.pc = "conn", !.i = k, !.eng = NoEngine]

\* Another invocation (or boot) ran since c began: while it was in flight, or
\* after it settled and before the caller took its result.
Disturbed(c) ==
    IF c.pc = "idle" THEN c
    ELSE [c EXCEPT !.solo = FALSE, !.cache0 = UnsetCache, !.engine0 = NoEngine]

\* Invocation p becomes c; every other invocation in flight has been interleaved.
Update(p, c) == [q \in Procs |-> IF q = p THEN c ELSE Disturbed(calls[q])]

\* Entries that invocations in flight may still push.
Pending(q) ==
    IF calls[q].op = "canBeUsed" /\ InFlight(q) /\ calls[q].pc # "config"
    THEN Len(calls[q].cfg) - calls[q].i + 1
    ELSE 0

RECURSIVE SumPending(_)
SumPending(S) ==
    IF S = {} THEN 0
    ELSE LET q == CHOOSE x \in S : TRUE IN Pending(q) + SumPending(S \ {q})

FirstIdle(p) == calls[p].pc = "idle" /\ \A q \in 1..(p - 1) : calls[q].pc # "idle"

(* ------------------------------ boot() -------------------------------- *)

\* A variant of Boot without line 19.
BootKeepsCache ==
    /\ cache' = cache
    /\ engine' = NoEngine
    /\ calls' = [q \in Procs |-> Disturbed(calls[q])]
    /\ fresh' = TRUE
    /\ quiet' = TRUE
    /\ wiped' = (wiped \/ NonEmpty(cache))
    /\ lastGet' = NoGet

\* A variant of Boot without line 20.
BootKeepsEngine ==
    /\ cache' = UnsetCache
    /\ engine' = engine
    /\ calls' = [q \in Procs |-> Disturbed(calls[q])]
    /\ fresh' = TRUE
    /\ quiet' = TRUE
    /\ wiped' = (wiped \/ NonEmpty(cache))
    /\ lastGet' = NoGet

\* Lines 18-21.  The body has no await: it runs at the invocation.
Boot ==
    /\ cache' = UnsetCache
    /\ engine' = NoEngine
    /\ calls' = [q \in Procs |-> Disturbed(calls[q])]
    /\ fresh' = TRUE
    /\ quiet' = TRUE
    /\ wiped' = (wiped \/ NonEmpty(cache))
    /\ lastGet' = NoGet

(* ------------------- canBeUsedInCurrentWorkspace() -------------------- *)

\* History: canBeUsedInCurrentWorkspace() was invoked.
Invoking ==
    /\ fresh' = FALSE
    /\ quiet' = FALSE
    /\ wiped' = FALSE
    /\ lastGet' = NoGet

\* History: an invocation of canBeUsedInCurrentWorkspace() resumed.
Resolving ==
    /\ fresh' = fresh
    /\ quiet' = FALSE
    /\ wiped' = FALSE
    /\ lastGet' = NoGet

\* Lines 23-25: the invocation, up to `await getConfigFileContent()`.
CallCanBeUsed(p) ==
    /\ FirstIdle(p)
    /\ calls' = Update(p, [IdleCall EXCEPT !.op = "canBeUsed", !.pc = "config",
                                           !.cache0 = cache, !.engine0 = engine,
                                           !.solo = \A q \in Procs : ~InFlight(q)])
    /\ Invoking
    /\ UNCHANGED <<cache, engine>>

\* A variant of ReadConfigFrom with line 28 ahead of lines 26-27.
ReadConfigEnsuresFirst(p, Contents, room) ==
    /\ calls[p].pc = "config"
    /\ \E content \in Contents :
        /\ Len(cache.items) + SumPending(Procs \ {p}) + Len(content.list) <= room
        /\ cache' = EnsureCache(cache)
        /\ IF ~content.defined \/ Len(content.list) = 0
           THEN calls' = Update(p, [calls[p] EXCEPT !.pc = "done", !.cfg = content.list,
                                                    !.resB = FALSE])
           ELSE calls' = Update(p, ScanFrom(p, [calls[p] EXCEPT !.cfg = content.list],
                                            EnsureCache(cache), 1))
    /\ Resolving
    /\ UNCHANGED engine

\* Lines 25-28 and the loop up to its first await, with the config file
\* holding one of Contents.
ReadConfigFrom(p, Contents, room) ==
    /\ calls[p].pc = "config"
    /\ \E content \in Contents :
        /\ Len(cache.items) + SumPending(Procs \ {p}) + Len(content.list) <= room
        /\ IF ~content.defined \/ Len(content.list) = 0
           THEN \* lines 26, 27
                /\ calls' = Update(p, [calls[p] EXCEPT !.pc = "done", !.cfg = content.list,
                                                       !.resB = FALSE])
                /\ cache' = cache
           ELSE /\ cache' = EnsureCache(cache)
                /\ calls' = Update(p, ScanFrom(p, [calls[p] EXCEPT !.cfg = content.list],
                                               EnsureCache(cache), 1))
    /\ Resolving
    /\ UNCHANGED engine

ReadConfig(p) == ReadConfigFrom(p, ConfigContents, MaxCache)

ReadShortConfig(p) == ReadConfigFrom(p, ShortContents, MaxConcCache)

\* The resolver returns `connection` (lines 84, 86-91, 97, 103, 106-110, 115,
\* 121, 124-128): its promise settles, and the invocation that awaits it at
\* line 32, 42 or 51 resumes in a later stretch.
ResolverReturns(p, connection) ==
    /\ calls' = Update(p, [calls[p] EXCEPT !.pc = "resolved", !.eng = NoEngine,
                                           !.connection = connection])
    /\ cache' = cache

\* Lines 33, 43, 52 and on: `if (connection) this.cache.push(connection)`
\* with a connection; push throws when boot() unset the cache meanwhile.
PushAndScan(p, entry) ==
    IF cache.def
    THEN /\ cache' = Push(cache, entry)
         /\ calls' = Update(p, ScanFrom(p, [calls[p] EXCEPT !.npass = @ + 1, !.eng = NoEngine,
                                                            !.connection = NoConnection],
                                        Push(cache, entry), calls[p].i + 1))
    ELSE /\ cache' = cache
         /\ calls' = Update(p, [calls[p] EXCEPT !.pc = "fault", !.npass = @ + 1,
                                                !.eng = NoEngine,
                                                !.connection = NoConnection])

\* Lines 33, 43, 52 and on with `connection` undefined: nothing is pushed,
\* the loop goes on.
SkipAndScan(p) ==
    /\ cache' = cache
    /\ calls' = Update(p, ScanFrom(p, [calls[p] EXCEPT !.nfail = @ + 1, !.eng = NoEngine,
                                                       !.connection = NoConnection],
                                   cache, calls[p].i + 1))

\* Lines 32-33, 42-43, 51-52: the await on the resolver resumes. When the
\* resolver's promise was rejected the await throws, and with no try/catch
\* in the method the invocation is rejected; otherwise the loop runs on to
\* its next await or to the return of line 56.
ResolverAwaited(p) ==
    /\ calls[p].pc \in {"resolved", "rejected"}
    /\ IF calls[p].pc = "rejected"
       THEN /\ calls' = Update(p, [calls[p] EXCEPT !.pc = "fault", !.nfail = @ + 1])
            /\ cache' = cache
       ELSE IF calls[p].connection.def
            THEN PushAndScan(p, calls[p].connection)
            ELSE SkipAndScan(p)
    /\ Resolving
    /\ UNCHANGED engine

\* The outcomes of an engine's boot(): it resolves, or it is rejected with
\* a ConnectionError (network, authentication or file access failure).
BootOutcomes == {"resolved", "rejected"}

\* Lines 80-81: engine.boot() settled. Resolved: await engine.isOkay().
\* Rejected: the await of line 80 throws, the resolver has no try/catch and
\* its own promise is rejected, isOkay() is never called.
SqliteBooted(p) ==
    /\ calls[p].pc = "sqBoot"
    /\ \E outcome \in BootOutcomes :
          calls' = Update(p,
              IF outcome = "resolved"
              THEN [calls[p] EXCEPT !.pc = "sqIsOkay", !.nIsOkay = @ + 1]
              ELSE [calls[p] EXCEPT !.pc = "rejected", !.eng = NoEngine])
    /\ Resolving
    /\ UNCHANGED <<cache, engine>>

\* Lines 81-92: isOkay() resolved.
SqliteChecked(p) ==
    /\ calls[p].pc = "sqIsOkay"
    /\ \E isOkay \in BOOLEAN, database \in BOOLEAN :
        IF SqliteValid(isOkay, database)
        THEN ResolverReturns(p, SqliteEntry(calls[p].cfg[calls[p].i], calls[p].eng, isOkay))
        ELSE /\ calls' = Update(p, [calls[p] EXCEPT !.pc = "sqErr",
                                        !.msgs = Append(@, InvalidSqliteMessage)])
             /\ cache' = cache
    /\ Resolving
    /\ UNCHANGED engine

\* Lines 83-84: the message was dismissed; the resolver returns undefined.
SqliteErrShown(p) ==
    /\ calls[p].pc = "sqErr"
    /\ ResolverReturns(p, NoConnection)
    /\ Resolving
    /\ UNCHANGED engine

\* A variant of NameErrShown that goes on to the next descriptor.
NameErrSkips(p) ==
    /\ calls[p].pc = "nameErr"
    /\ SkipAndScan(p)
    /\ Resolving
    /\ UNCHANGED engine

\* Lines 39-40, 48-49: the message was dismissed; return false.
NameErrShown(p) ==
    /\ calls[p].pc = "nameErr"
    /\ calls' = Update(p, [calls[p] EXCEPT !.pc = "done", !.resB = FALSE])
    /\ Resolving
    /\ UNCHANGED <<cache, engine>>

\* What `await getConnectionFor(..)` resolves to (lines 96, 114): a connection
\* handle (TRUE) or undefined (FALSE).  The connector does nothing else that
\* the Provider or the user sees.
GetConnectionFor == BOOLEAN

\* Lines 96-100, 114-118: getConnectionFor(..) resolved.
Connected(p) ==
    /\ calls[p].pc = "conn"
    /\ \E connection \in GetConnectionFor :
        IF connection
        THEN /\ calls' = Update(p, [calls[p] EXCEPT !.pc = "isOkay",
                                        !.eng = FreshEngine(LiveOutside(p, cache)),
                                        !.nIsOkay = @ + 1])
             /\ cache' = cache
        ELSE ResolverReturns(p, NoConnection)
    /\ Resolving
    /\ UNCHANGED engine

\* Lines 100-110, 118-128: isOkay() resolved.
ServerChecked(p) ==
    /\ calls[p].pc = "isOkay"
    /\ \E isOkay \in BOOLEAN, sequelize \in BOOLEAN :
        IF ServerValid(isOkay, sequelize)
        THEN ResolverReturns(p, ServerEntry(calls[p].cfg[calls[p].i], calls[p].eng, isOkay))
        ELSE /\ calls' = Update(p, [calls[p] EXCEPT !.pc = "connErr",
                                        !.msgs = Append(@, InvalidServerMessage(calls[p].cfg[calls[p].i]))])
             /\ cache' = cache
    /\ Resolving
    /\ UNCHANGED engine

\* Lines 102-103, 120-121: the message was dismissed; the resolver returns undefined.
ConnErrShown(p) ==
    /\ calls[p].pc = "connErr"
    /\ ResolverReturns(p, NoConnection)
    /\ Resolving
    /\ UNCHANGED engine
(* ------------------------- getDatabaseEngine() ------------------------ *)

\* A variant of Find whose callback accepts every entry.
FindFirstEntry(c, id) == IF Len(c.items) > 0 THEN 1 ELSE 0

\* A variant of Find that returns the position of the last entry with that id.
FindLast(c, id) ==
    IF \E k \in 1..Len(c.items) : c.items[k].id = id
    THEN CHOOSE k \in 1..Len(c.items) :
            c.items[k].id = id /\ \A m \in (k + 1)..Len(c.items) : c.items[m].id # id
    ELSE 0

\* Line 61: this.cache?.find((cache) => cache.id === option.option.id):
\* the position of the first entry with that id, 0 for undefined.
Find(c, id) ==
    IF \E k \in 1..Len(c.items) : c.items[k].id = id
    THEN CHOOSE k \in 1..Len(c.items) :
            c.items[k].id = id /\ \A m \in 1..(k - 1) : c.items[m].id # id
    ELSE 0

\* Lines 60-68: the engine selected once the lookup is over (found > 0, or
\* no option given).
Selected(c, opt, current) ==
    IF opt.given THEN c.items[Find(c, opt.id)].engine ELSE current

\* Line 70: this.engine?.boot.  Every engine class implements boot().
HasBoot(e) == e # NoEngine

\* Line 74: return this.engine
Returned(current) == current

\* The arguments of getDatabaseEngine: none, or an option naming an id.
Options(ids) == {NoOption} \cup [given : {TRUE}, id : ids]

\* A variant of CallGetEngineWith that assigns this.engine ahead of the
\* test of line 62, unsetting it on a miss.
CallGetEngineUnsetsOnMiss(p, opts) ==
    /\ FirstIdle(p)
    /\ \E opt \in opts :
        LET c0 == [IdleCall EXCEPT !.op = "getEngine", !.opt = opt,
                                   !.cache0 = cache, !.engine0 = engine,
                                   !.afterBoot = quiet, !.sinceBoot = fresh,
                                   !.solo = \A q \in Procs : ~InFlight(q)]
        IN  IF opt.given /\ Find(cache, opt.id) = 0
            THEN /\ calls' = Update(p, [c0 EXCEPT !.pc = "gdErr",
                                                  !.msgs = Append(@, NotFoundMessage)])
                 /\ engine' = NoEngine
            ELSE /\ engine' = Selected(cache, opt, engine)
                 /\ IF HasBoot(engine')
                    THEN calls' = Update(p, [c0 EXCEPT !.pc = "gdBoot",
                                                       !.booted = Append(@, engine')])
                    ELSE calls' = Update(p, [c0 EXCEPT !.pc = "done",
                                                       !.resE = Returned(engine')])
    /\ UNCHANGED <<cache, fresh, quiet, wiped, lastGet>>

\* Lines 59-71: the invocation, up to its first await or its return.
CallGetEngineWith(p, opts) ==
    /\ FirstIdle(p)
    /\ \E opt \in opts :
        LET c0 == [IdleCall EXCEPT !.op = "getEngine", !.opt = opt,
                                   !.cache0 = cache, !.engine0 = engine,
                                   !.afterBoot = quiet, !.sinceBoot = fresh,
                                   !.solo = \A q \in Procs : ~InFlight(q)]
        IN  IF opt.given /\ Find(cache, opt.id) = 0
            THEN \* lines 62-63: await showErrorMessage(..)
                 /\ calls' = Update(p, [c0 EXCEPT !.pc = "gdErr",
                                                  !.msgs = Append(@, NotFoundMessage)])
                 /\ engine' = engine
            ELSE /\ engine' = Selected(cache, opt, engine)
                 /\ IF HasBoot(engine')
                    THEN \* lines 70-71: await this.engine.boot()
                         calls' = Update(p, [c0 EXCEPT !.pc = "gdBoot",
                                                       !.booted = Append(@, engine')])
                    ELSE \* line 74
                         calls' = Update(p, [c0 EXCEPT !.pc = "done",
                                                       !.resE = Returned(engine')])
    /\ UNCHANGED <<cache, fresh, quiet, wiped, lastGet>>

CallGetEngine(p) == CallGetEngineWith(p, Options(Keys))

CallGetShortEngine(p) == CallGetEngineWith(p, Options({d.key : d \in ConcDescriptors} \ {""}))

\* Lines 63-64: the message was dismissed; return undefined.
GetErrShown(p) ==
    /\ calls[p].pc = "gdErr"
    /\ calls' = Update(p, [calls[p] EXCEPT !.pc = "done", !.resE = NoEngine])
    /\ UNCHANGED <<cache, engine, fresh, quiet, wiped, lastGet>>

\* Lines 71-74: engine.boot() settled. Resolved: return this.engine as it
\* is now. Rejected: the await of line 71 throws and the invocation is
\* rejected; this.engine keeps the value line 67 gave it.
EngineBooted(p) ==
    /\ calls[p].pc = "gdBoot"
    /\ \E outcome \in BootOutcomes :
          calls' = Update(p,
              IF outcome = "resolved"
              THEN [calls[p] EXCEPT !.pc = "done", !.resE = Returned(engine)]
              ELSE [calls[p] EXCEPT !.pc = "fault"])
    /\ UNCHANGED <<cache, engine, fresh, quiet, wiped, lastGet>>

(* ------------------------------ callers ------------------------------- *)

\* The caller takes the result (or the rejection) of a settled invocation.
Retire(p) ==
    /\ calls[p].pc \in {"done", "fault"}
    /\ calls' = [calls EXCEPT ![p] = IdleCall]
    /\ lastGet' = IF calls[p].op = "getEngine"
                  THEN IF calls[p].solo /\ calls[p].pc = "done"
                       THEN [valid |-> TRUE, opt |-> calls[p].opt, resE |-> calls[p].resE]
                       ELSE NoGet
                  ELSE lastGet
    /\ UNCHANGED <<cache, engine, fresh, quiet, wiped>>

Next ==
    \/ Boot
    \/ \E p \in {1} : CallCanBeUsed(p)
    \/ \E p \in Procs : ReadConfig(p)
    \/ \E p \in Procs : SqliteBooted(p)
    \/ \E p \in Procs : SqliteChecked(p)
    \/ \E p \in Procs : SqliteErrShown(p)
    \/ \E p \in Procs : NameErrShown(p)
    \/ \E p \in Procs : Connected(p)
    \/ \E p \in Procs : ServerChecked(p)
    \/ \E p \in Procs : ConnErrShown(p)
    \/ \E p \in Procs : ResolverAwaited(p)
    \/ \E p \in {1} : CallGetEngine(p)
    \/ \E p \in Procs : GetErrShown(p)
    \/ \E p \in Procs : EngineBooted(p)
    \/ \E p \in Procs : Retire(p)

\* The caller awaits every canBeUsedInCurrentWorkspace() and
\* getDatabaseEngine() before it invokes the next one; boot() is invoked at
\* any moment, also while an invocation is suspended.
Spec == Init /\ [][Next]_vars

\* Up to MaxCalls invocations overlap, interleaved at their awaits.
ConcNext ==
    \/ Boot
    \/ \E p \in Procs : CallCanBeUsed(p)
    \/ \E p \in Procs : ReadShortConfig(p)
    \/ \E p \in Procs : SqliteBooted(p)
    \/ \E p \in Procs : SqliteChecked(p)
    \/ \E p \in Procs : SqliteErrShown(p)
    \/ \E p \in Procs : NameErrShown(p)
    \/ \E p \in Procs : Connected(p)
    \/ \E p \in Procs : ServerChecked(p)
    \/ \E p \in Procs : ConnErrShown(p)
    \/ \E p \in Procs : ResolverAwaited(p)
    \/ \E p \in Procs : CallGetShortEngine(p)
    \/ \E p \in Procs : GetErrShown(p)
    \/ \E p \in Procs : EngineBooted(p)
    \/ \E p \in Procs : Retire(p)

ConcSpec == Init /\ [][ConcNext]_vars
(* ------------------------------ claims -------------------------------- *)

DoneCan(p) == calls[p].op = "canBeUsed" /\ calls[p].pc = "done"

DoneGet(p) == calls[p].op = "getEngine" /\ calls[p].pc = "done"

\* A sqlite entry with a path, or a server entry with a name.
WellFormed(d) == Dispatched(d) /\ ~MissingName(d)

AllWellFormed(cfg) == \A k \in 1..Len(cfg) : WellFormed(cfg[k])

HasNameless(cfg) == \E k \in 1..Len(cfg) : cfg[k].type \in ServerTypes /\ MissingName(cfg[k])

\* Invocation p ran alone and began right after construction or boot().
StartedUnset(p) ==
    calls[p].solo /\ ~calls[p].cache0.def /\ calls[p].engine0 = NoEngine

RECURSIVE CountDispatched(_, _)
CountDispatched(cfg, n) ==
    IF n <= 0 THEN 0
    ELSE CountDispatched(cfg, n - 1) + (IF Dispatched(cfg[n]) THEN 1 ELSE 0)

\* C1 as stated: whatever the Provider's state at the call, a call on a list
\* of well-formed entries returns true iff an entry of the list passed
\* validation during the call.
C1_AnyState ==
    \A p \in Procs :
        DoneCan(p) /\ AllWellFormed(calls[p].cfg)
            => (calls[p].resB <=> calls[p].npass > 0)

\* C1, amended: a call on a list of well-formed entries that no other
\* Provider method interleaved returns true iff an entry of the list passed
\* validation during the call, or the list is not empty and the cache held
\* an entry when the call began.
C1_PassedOrKept ==
    \A p \in Procs :
        DoneCan(p) /\ AllWellFormed(calls[p].cfg) /\ calls[p].solo
            => (calls[p].resB <=>
                    \/ calls[p].npass > 0
                    \/ Len(calls[p].cfg) > 0 /\ Len(calls[p].cache0.items) > 0)

C1_Witness ==
    \E p \in Procs :
        /\ DoneCan(p) /\ AllWellFormed(calls[p].cfg) /\ calls[p].solo
        /\ Len(calls[p].cache0.items) = 1
        /\ Len(calls[p].cfg) = 2 /\ calls[p].nfail = 2 /\ calls[p].npass = 0
        /\ calls[p].resB

\* C2: a call on a list with a server entry without a name returns false,
\* and the cache holds no entry when it returns.
C2_NamelessLeavesCacheEmpty ==
    \A p \in Procs :
        DoneCan(p) /\ calls[p].solo /\ HasNameless(calls[p].cfg)
            => ~calls[p].resB /\ Len(cache.items) = 0

\* C3: getDatabaseEngine({id: B}) on a cache that holds B returns the engine
\* of an entry with id B and of no entry with another id, leaves the cache as
\* it was, calls boot() on that engine and isOkay() on none; called again for
\* the same id right after, it returns the same instance.
C3_GetById ==
    \A p \in Procs :
        (/\ DoneGet(p) /\ calls[p].solo /\ calls[p].opt.given
         /\ \E k \in 1..Len(calls[p].cache0.items) :
                calls[p].cache0.items[k].id = calls[p].opt.id)
            => /\ \E k \in 1..Len(cache.items) :
                    /\ cache.items[k].id = calls[p].opt.id
                    /\ cache.items[k].engine = calls[p].resE
               /\ \A k \in 1..Len(cache.items) :
                    cache.items[k].id # calls[p].opt.id
                        => cache.items[k].engine # calls[p].resE
               /\ cache = calls[p].cache0
               /\ calls[p].nIsOkay = 0
               /\ calls[p].booted = <<calls[p].resE>>
               /\ (lastGet.valid /\ lastGet.opt = calls[p].opt
                        => calls[p].resE = lastGet.resE)

C3_Witness ==
    \E p \in Procs :
        /\ DoneGet(p) /\ calls[p].solo /\ calls[p].opt.given
        /\ Len(cache.items) >= 2
        /\ cache.items[1].id # calls[p].opt.id
        /\ calls[p].resE # NoEngine
        /\ lastGet.valid /\ lastGet.opt = calls[p].opt

\* C4 as stated: once boot() ran and until canBeUsedInCurrentWorkspace() is
\* next called, cache and engine are unset, and every getDatabaseEngine()
\* called in that span returns no engine, with the lookup error shown when it
\* names an id.
C4_UntilNextCall ==
    fresh =>
        /\ ~cache.def
        /\ engine = NoEngine
        /\ \A p \in Procs :
              DoneGet(p) /\ calls[p].sinceBoot
                  => /\ calls[p].resE = NoEngine
                     /\ calls[p].opt.given => calls[p].msgs = <<NotFoundMessage>>

\* C4, amended: once boot() ran and until canBeUsedInCurrentWorkspace() next
\* runs (is called, or an invocation suspended when boot() ran resumes),
\* cache and engine are unset, and every getDatabaseEngine() called in that
\* span returns no engine, with the lookup error shown when it names an id.
C4_AfterBoot ==
    quiet =>
        /\ ~cache.def
        /\ engine = NoEngine
        /\ \A p \in Procs :
              DoneGet(p) /\ calls[p].afterBoot
                  => /\ calls[p].resE = NoEngine
                     /\ calls[p].opt.given => calls[p].msgs = <<NotFoundMessage>>

C4_Witness ==
    /\ quiet /\ wiped
    /\ \E p \in Procs :
          /\ DoneGet(p) /\ calls[p].afterBoot /\ calls[p].opt.given
          /\ calls[p].msgs = <<NotFoundMessage>>

\* C5: when canBeUsedInCurrentWorkspace() returns, its result is true iff the
\* cache is non-empty.
C5_ResultIffCacheNonEmpty ==
    \A p \in Procs :
        DoneCan(p) /\ calls[p].solo => (calls[p].resB <=> Len(cache.items) > 0)

\* C6: no two entries of the cache have the same id.
C6_UniqueIds ==
    \A j, k \in 1..Len(cache.items) :
        j # k => cache.items[j].id # cache.items[k].id

\* C7: the selected engine is unset or is the engine of an entry of the cache.
C7_EngineInCache == engine = NoEngine \/ engine \in EnginesOf(cache)

C7_Witness ==
    /\ engine # NoEngine
    /\ \E p \in Procs :
          /\ DoneGet(p) /\ calls[p].opt.given /\ calls[p].solo
          /\ calls[p].msgs = <<NotFoundMessage>>
          /\ calls[p].engine0 = engine

\* C8: from a freshly booted Provider, a list of one sqlite entry and one
\* named mysql entry (path and name different) that both pass validation
\* leaves exactly two entries, the sqlite one under its path and the mysql one
\* under its name, and a lookup by either id selects the engine of that entry.
C8_RoundTrip ==
    \A p \in Procs :
        (/\ DoneCan(p) /\ StartedUnset(p)
         /\ Len(calls[p].cfg) = 2
         /\ {calls[p].cfg[1].type, calls[p].cfg[2].type} = {"sqlite", "mysql"}
         /\ ~MissingName(calls[p].cfg[1]) /\ ~MissingName(calls[p].cfg[2])
         /\ calls[p].cfg[1].key # calls[p].cfg[2].key
         /\ calls[p].npass = 2)
            => /\ calls[p].resB
               /\ Len(cache.items) = 2
               /\ cache.items[1].engine # cache.items[2].engine
               /\ \A k \in 1..2 :
                    /\ cache.items[k].id = calls[p].cfg[k].key
                    /\ Find(cache, calls[p].cfg[k].key) = k
                    /\ Selected(cache, [given |-> TRUE, id |-> calls[p].cfg[k].key], engine)
                            = cache.items[k].engine

C8_Witness ==
    \E p \in Procs :
        /\ DoneCan(p) /\ StartedUnset(p)
        /\ calls[p].cfg = <<[type |-> "mysql", key |-> "a"], [type |-> "sqlite", key |-> "b"]>>
        /\ calls[p].npass = 2
        /\ Len(cache.items) = 2

\* C9: no invocation ends in a fault.
C9_NoFault == \A p \in Procs : calls[p].pc # "fault"

\* C10: while canBeUsedInCurrentWorkspace() runs alone, an entry that fails
\* does not end the scan: the invocation is not rejected; the cache grows by
\* the entries that passed and by nothing else; every entry before the
\* current one was validated; unless a server entry has no name, the scan
\* ends only after the last entry; and a single entry that fails, on an
\* empty cache, gives false.
C10_FailureIsEntryScoped ==
    \A p \in Procs :
        (calls[p].op = "canBeUsed" /\ calls[p].solo /\ Len(calls[p].cfg) > 0)
            => /\ calls[p].pc # "fault"
               /\ Len(cache.items) = Len(calls[p].cache0.items) + calls[p].npass
               /\ calls[p].npass + calls[p].nfail
                    = CountDispatched(calls[p].cfg, calls[p].i - 1)
               /\ (calls[p].pc = "done" /\ ~HasNameless(calls[p].cfg))
                    => calls[p].i = Len(calls[p].cfg) + 1
               /\ (/\ calls[p].pc = "done" /\ Len(calls[p].cfg) = 1
                   /\ calls[p].nfail = 1 /\ Len(calls[p].cache0.items) = 0)
                    => ~calls[p].resB /\ Len(cache.items) = 0

\* C11: every entry of the cache holds an engine whose isOkay() resolved to
\* true, no two entries hold the same engine instance, and an engine that
\* getDatabaseEngine() returns is the engine of such an entry.
C11_CachedEnginesHealthy ==
    /\ \A k \in 1..Len(cache.items) :
          /\ cache.items[k].okay
          /\ cache.items[k].engine # NoEngine
          /\ \A j \in 1..(k - 1) : cache.items[j].engine # cache.items[k].engine
    /\ \A p \in Procs :
          DoneGet(p) /\ calls[p].solo /\ calls[p].resE # NoEngine
              => \E k \in 1..Len(cache.items) :
                    cache.items[k].engine = calls[p].resE /\ cache.items[k].okay

C11_Witness ==
    /\ Len(cache.items) >= 2
    /\ \E p \in Procs :
          /\ DoneGet(p) /\ calls[p].solo /\ calls[p].opt.given
          /\ calls[p].resE = cache.items[2].engine

\* Invocation p is between the start of an entry's validation and the end of
\* that validation or of its error message (lines 32, 42, 51).
Validating(p) ==
    /\ calls[p].op = "canBeUsed"
    /\ calls[p].pc \in {"sqBoot", "sqIsOkay", "sqErr", "conn", "isOkay", "connErr"}

\* seq[from..Len(seq)]
From(seq, from) == [k \in 1..(Len(seq) - from + 1) |-> seq[k + from - 1]]

\* The entries ids, in order, have the keys of some of the descriptors cfg[j..n], in order.
RECURSIVE InListOrder(_, _, _, _)
InListOrder(ids, cfg, j, n) ==
    IF Len(ids) = 0 THEN TRUE
    ELSE IF j > n THEN FALSE
    ELSE \/ (cfg[j].key = ids[1].id /\ InListOrder(Tail(ids), cfg, j + 1, n))
         \/ InListOrder(ids, cfg, j + 1, n)

\* C12: at any moment at most one entry of the Provider is under validation,
\* also while invocations of canBeUsedInCurrentWorkspace() overlap; and the
\* entries an invocation that ran alone appended are entries of its list, in
\* list order.
C12_OneAtATime ==
    /\ \A p, q \in Procs : p # q => ~(Validating(p) /\ Validating(q))
    /\ \A p \in Procs :
          calls[p].op = "canBeUsed" /\ calls[p].solo /\ Len(calls[p].cfg) > 0
              => InListOrder(From(cache.items, Len(calls[p].cache0.items) + 1),
                             calls[p].cfg, 1, calls[p].i - 1)

Nameless(d) == d.type \in ServerTypes /\ MissingName(d)

\* Position of the first server entry without a name.
FirstNameless(cfg) ==
    CHOOSE k \in 1..Len(cfg) :
        Nameless(cfg[k]) /\ \A m \in 1..(k - 1) : ~Nameless(cfg[m])

\* The missing-name messages among msgs.
NameMsgs(msgs) ==
    Cardinality({k \in 1..Len(msgs) :
        \E t \in ServerTypes : msgs[k] = NoNameMessage([type |-> t, key |-> ""])})

\* C13: an invocation of canBeUsedInCurrentWorkspace() shows a missing-name
\* message only at the first server entry without a name; there it shows one,
\* the one of that entry's kind and of no other kind, as its last message,
\* having started validation (connection, engine, isOkay) for the entries
\* before it only; and it returns false from there.
C13_NamelessAborts ==
    \A p \in Procs :
        calls[p].op = "canBeUsed" =>
            LET c == calls[p]
            IN  IF c.pc = "nameErr" \/ (c.pc = "done" /\ HasNameless(c.cfg))
                THEN /\ c.i = FirstNameless(c.cfg)
                     /\ NameMsgs(c.msgs) = 1
                     /\ c.msgs[Len(c.msgs)] = NoNameMessage(c.cfg[c.i])
                     /\ \A t \in ServerTypes \ {c.cfg[c.i].type} :
                            c.msgs[Len(c.msgs)] # NoNameMessage([type |-> t, key |-> ""])
                     /\ c.npass + c.nfail = CountDispatched(c.cfg, c.i - 1)
                     /\ c.nIsOkay <= c.npass + c.nfail
                     /\ c.eng = NoEngine
                     /\ c.pc = "done" => ~c.resB
                ELSE NameMsgs(c.msgs) = 0

C13_Witness ==
    \E p \in Procs :
        /\ DoneCan(p) /\ Len(calls[p].cfg) = 2
        /\ calls[p].cfg[1].type = "mariadb" /\ MissingName(calls[p].cfg[1])
        /\ calls[p].cfg[2].type = "sqlite" /\ calls[p].cfg[2].key = "a"
        /\ calls[p].msgs = <<"MariaDB entry has no name">>
        /\ ~calls[p].resB

\* C14: an invocation of canBeUsedInCurrentWorkspace() has shown, apart from
\* a missing-name message, at least as many messages as it has left entries
\* behind that failed validation: one or more for every failed entry, shown
\* before the scan went on.
C14_EveryFailureReported ==
    \A p \in Procs :
        calls[p].op = "canBeUsed"
            => Len(calls[p].msgs) - NameMsgs(calls[p].msgs) >= calls[p].nfail

\* C15: a getDatabaseEngine() call that returned an engine called boot()
\* during the call on that engine, once, and on no other; a call that returned
\* no engine called boot() on none.
C15_BootsWhatItReturns ==
    \A p \in Procs :
        DoneGet(p) =>
            calls[p].booted = (IF calls[p].resE # NoEngine THEN <<calls[p].resE>> ELSE <<>>)

\* C16: a call of canBeUsedInCurrentWorkspace() for which the config file
\* yielded undefined or an empty list returns false, has shown no message,
\* has not entered the loop (no connection, no engine, no isOkay()), and
\* leaves cache and engine as they were when it began.
C16_NothingToResolve ==
    \A p \in Procs :
        DoneCan(p) /\ Len(calls[p].cfg) = 0
            => /\ ~calls[p].resB
               /\ calls[p].msgs = <<>>
               /\ calls[p].i = 0 /\ calls[p].eng = NoEngine
               /\ calls[p].nIsOkay = 0 /\ calls[p].npass = 0 /\ calls[p].nfail = 0
               /\ calls[p].solo => cache = calls[p].cache0 /\ engine = calls[p].engine0

C16_Witness ==
    \E p \in Procs :
        /\ DoneCan(p) /\ Len(calls[p].cfg) = 0 /\ calls[p].solo
        /\ Len(calls[p].cache0.items) > 0
        /\ calls[p].engine0 # NoEngine
        /\ ~calls[p].resB

\* The last getDatabaseEngine() call named an id and returned no engine, and
\* nothing but getDatabaseEngine() ran since.
AfterMiss == lastGet.valid /\ lastGet.opt.given /\ lastGet.resE = NoEngine

\* C17: a getDatabaseEngine() call naming an id the cache does not hold shows
\* the lookup error, returns no engine, calls boot() on none and leaves cache
\* and engine as they were; the call without an id that follows it returns
\* the engine that was selected when it began, unchanged, and has called
\* boot() on it.
C17_MissKeepsSelection ==
    \A p \in Procs :
        DoneGet(p) /\ calls[p].solo =>
            /\ (calls[p].opt.given /\ Find(calls[p].cache0, calls[p].opt.id) = 0)
                    => /\ calls[p].msgs = <<NotFoundMessage>>
                       /\ calls[p].resE = NoEngine
                       /\ calls[p].booted = <<>>
                       /\ cache = calls[p].cache0
                       /\ engine = calls[p].engine0
            /\ (AfterMiss /\ ~calls[p].opt.given)
                    => /\ calls[p].resE = calls[p].engine0
                       /\ engine = calls[p].engine0
                       /\ cache = calls[p].cache0
                       /\ calls[p].msgs = <<>>
                       /\ calls[p].engine0 # NoEngine
                            => calls[p].booted = <<calls[p].engine0>>

C17_Witness ==
    \E p \in Procs :
        /\ DoneGet(p) /\ calls[p].solo /\ ~calls[p].opt.given
        /\ AfterMiss
        /\ calls[p].resE # NoEngine
        /\ calls[p].booted = <<calls[p].resE>>

\* Positions of the entries of c with that id.
Matches(c, id) == {k \in 1..Len(c.items) : c.items[k].id = id}

\* C18: getDatabaseEngine() naming an id that several entries of the cache
\* have selects and returns the engine of the one appended first, and the
\* engine of none of the later ones.
C18_FirstAppendedWins ==
    \A p \in Procs :
        (/\ DoneGet(p) /\ calls[p].solo /\ calls[p].opt.given
         /\ Cardinality(Matches(calls[p].cache0, calls[p].opt.id)) >= 2)
            => /\ engine = calls[p].resE
               /\ \A k \in Matches(calls[p].cache0, calls[p].opt.id) :
                    IF \A m \in Matches(calls[p].cache0, calls[p].opt.id) : k <= m
                    THEN calls[p].resE = calls[p].cache0.items[k].engine
                    ELSE calls[p].resE # calls[p].cache0.items[k].engine

C18_Witness ==
    \E p \in Procs :
        /\ DoneGet(p) /\ calls[p].solo /\ calls[p].opt.given
        /\ Matches(calls[p].cache0, calls[p].opt.id) = {2, 3}
        /\ calls[p].resE = cache.items[2].engine

Min(a, b) == IF a <= b THEN a ELSE b

====
